---- MODULE Spec2Model ----
(***************************************************************************)
(* A model of the ad-serving engine of ad-integration-template: the        *)
(* viewability tracker (AdSystem.setupViewabilityTracking) and the slot    *)
(* orchestrator (AdSystem.initialize, loadAdForSlot, makeBidRequest,       *)
(* renderAd and the per-variant renderers) of src/ads.js and               *)
(* src/unnamed/part_001.                                                    *)
(*                                                                         *)
(* Time is in milliseconds and advances in steps of TickMs.  A timer set   *)
(* with setTimeout runs at the instant it is due: other events of the same *)
(* instant may run before it, the clock does not pass it.                  *)
(* Intersection ratios are in tenths (THRESHOLD == 5 is the code's 0.5).   *)
(***************************************************************************)
EXTENDS Integers, Sequences, FiniteSets, TLC

\* ------------------------------------------------------------------ bounds
NumSlots == 3          \* placeholders on the page; slot s hosts media element s
MaxTicks == 17         \* clock steps of TickMs explored
MaxOrchTicks == 9      \* the orchestrator runs explore the clock up to MaxOrchTicks * baseDelay
MaxTimers == 2         \* setTimeout calls per element
MaxRegs == 2           \* setupViewabilityTracking calls per element
MaxUnloads == 1        \* beforeunload events
MaxLoads == 2          \* load / loadeddata events per media element
MaxClicks == 2         \* click events per creative
MaxPieces == 2         \* tokens and texts a template is put together from
MaxSends == 2          \* direct calls of sendImpression

\* ------------------------------------------------------- program constants
THRESHOLD == 5         \* VIEWABILITY.THRESHOLD, 0.5 in tenths
DURATION == 1000       \* VIEWABILITY.DURATION, ms
Null == -1             \* JavaScript null
maxRetries == 5        \* initialize: const maxRetries
baseDelay == 500       \* initialize: const baseDelay, ms
BidTimeout == 3000     \* makeBidRequest: the fetch option timeout, ms
NavDelay == 100        \* click handlers: setTimeout(..., 100) before the redirect, ms

TickMs == DURATION \div 10
MaxTime == MaxTicks * TickMs
OrchMaxTime == MaxOrchTicks * baseDelay
Slots == 1..NumSlots
Elems == Slots

\* An IntersectionObserverEntry, as far as the callback reads it.  A browser
\* reports ratio 0 for an element that does not intersect.
Ratios == {0, 4, 5, 6, 10}
Entries == {[isIntersecting |-> TRUE, intersectionRatio |-> r] : r \in Ratios}
             \cup {[isIntersecting |-> FALSE, intersectionRatio |-> 0]}


\* ------------------------------------------------------------ page inputs
Variants == {"ads", "part001"}

\* A data-* attribute is a string, here a sequence of characters.  An absent
\* attribute reads as undefined, which parseInt turns into the text "undefined".
Undefined == <<"undefined">>

IsDigit(c) == c \in {"0", "1", "2", "3", "4", "5", "6", "7", "8", "9"}

DigitVal(c) ==
    CASE c = "0" -> 0 [] c = "1" -> 1 [] c = "2" -> 2 [] c = "3" -> 3 [] c = "4" -> 4
      [] c = "5" -> 5 [] c = "6" -> 6 [] c = "7" -> 7 [] c = "8" -> 8 [] c = "9" -> 9

\* The white space parseInt skips before the number (StrWhiteSpaceChar):
\* blank, tab, line feed, carriage return, form feed, and written as the
\* characters themselves U+000B (vertical tab), U+00A0 (no-break space),
\* U+1680 (ogham space mark) and U+FEFF (zero width no-break space).  The
\* space separators from U+2000 on, U+2028 and U+2029 are white space to
\* parseInt too; a string of a module cannot hold them.
RECURSIVE StripLeft(_)
StripLeft(str) ==
    IF str # <<>> /\ Head(str) \in {" ", "\t", "\n", "\r", "\f",
                                    "", " ", " ", "﻿"}
    THEN StripLeft(Tail(str)) ELSE str

RECURSIVE ReadDigits(_, _)
ReadDigits(str, acc) ==
    IF str = <<>> \/ ~IsDigit(Head(str)) THEN acc
    ELSE ReadDigits(Tail(str), acc * 10 + DigitVal(Head(str)))

NaN == [nan |-> TRUE, val |-> 0]

\* parseInt(str, 10): leading white space, an optional sign, then the longest run
\* of digits; NaN when no digit follows.
ParseInt10(str) ==
    LET s == StripLeft(str)
        signed == s # <<>> /\ Head(s) \in {"-", "+"}
        body == IF signed THEN Tail(s) ELSE s
    IN  IF body = <<>> \/ ~IsDigit(Head(body)) THEN NaN
        ELSE [nan |-> FALSE,
              val |-> (IF signed /\ Head(s) = "-" THEN 0 - 1 ELSE 1) * ReadDigits(body, 0)]

\* x || 0 for a number x: NaN and 0 are falsy.
OrZero(p) == IF p.nan \/ p.val = 0 THEN 0 ELSE p.val

\* The slot initialize() parses from a placeholder's dataset.
ParseSlot(decl) ==
    [width |-> OrZero(ParseInt10(decl.width)),
     height |-> OrZero(ParseInt10(decl.height)),
     slot_id |-> OrZero(ParseInt10(decl.slot_id))]

\* if (width && height && slot_id)
ValidSlot(slot) == slot.width # 0 /\ slot.height # 0 /\ slot.slot_id # 0

NoDecl == [present |-> FALSE, width |-> Undefined, height |-> Undefined,
           slot_id |-> Undefined]
GoodDecl == [present |-> TRUE, width |-> <<"3", "0", "0">>,
             height |-> <<"2", "5", "0">>, slot_id |-> <<"7">>]
OddAttrs == {Undefined, <<>>, <<"a", "b">>, <<"0">>, <<"-", "0">>, <<"-", "5">>,
             <<"5", "p", "x">>, <<"\r", "\n", " ", "\t", " ", "4", "2">>}
RichDecls == {GoodDecl}
               \cup {[GoodDecl EXCEPT !.width = a] : a \in OddAttrs}
               \cup {[GoodDecl EXCEPT !.height = a] : a \in OddAttrs}
               \cup {[GoodDecl EXCEPT !.slot_id = a] : a \in OddAttrs}
OrchDecls == {GoodDecl, [GoodDecl EXCEPT !.width = Undefined]}

\* ------------------------------------------------------------- ad markup
\* A string is a sequence of characters.  JavaScript null in the place of a
\* string: no sequence of characters equals it.
NullUrl == <<"null">>

\* The substring of str that starts at i is prefixed by pat.
MatchesAt(str, i, pat) ==
    /\ i + Len(pat) - 1 <= Len(str)
    /\ \A k \in 1..Len(pat) : str[i + k - 1] = pat[k]

Url(c) == <<"h", "t", "t", "p", "s", ":", "/", "/", c>>

\* The text sendUrl('z') of an onload attribute.
SendUrlPrefix == <<"s", "e", "n", "d", "U", "r", "l", "(", "'">>
SendUrlCall(z) == SendUrlPrefix \o z \o <<"'", ")">>

\* [^']+ from position b: the index after the longest run without a quote.
RECURSIVE RunEnd(_, _)
RunEnd(str, b) ==
    IF b > Len(str) \/ str[b] = "'" THEN b ELSE RunEnd(str, b + 1)

\* SendUrlMatch that yields the text matched (match[0]) instead of the capture.
SendUrlWhole(onload) ==
    IF \E i \in 1..Len(onload) : MatchesAt(onload, i, SendUrlPrefix) THEN onload
    ELSE Undefined

\* onloadAttr.match(/sendUrl\('([^']+)'\)/)?.[1]: the capture of the leftmost
\* match, Undefined when there is none.
SendUrlMatch(onload) ==
    LET hit(i) == /\ MatchesAt(onload, i, SendUrlPrefix)
                  /\ LET b == i + Len(SendUrlPrefix)
                         e == RunEnd(onload, b)
                     IN  e > b /\ MatchesAt(onload, e, <<"'", ")">>)
        hits == {i \in 1..Len(onload) : hit(i)}
    IN  IF hits = {} THEN Undefined
        ELSE LET i == CHOOSE j \in hits : \A k \in hits : j <= k
                 b == i + Len(SendUrlPrefix)
             IN  SubSeq(onload, b, RunEnd(onload, b) - 1)

\* v || null for a string or undefined v.
OrNull(v) == IF v = Undefined \/ v = <<>> THEN NullUrl ELSE v

\* The ad markup as the parsed document shows it: the href of its first
\* anchor, the src and the onload attribute of its first image, each
\* Undefined when the element or the attribute is missing.  URLs are absolute.
Adm(href, src, onload) == [href |-> href, src |-> src, onload |-> onload]
NoAdm == Adm(Undefined, Undefined, Undefined)

\* extractUrls(adm)
ExtractUrls(adm) ==
    [clickUrl |-> OrNull(adm.href),
     imageUrl |-> OrNull(adm.src),
     impressionUrl |-> IF adm.onload = Undefined \/ adm.onload = <<>> THEN NullUrl
                       ELSE OrNull(SendUrlMatch(adm.onload))]

\* ------------------------------------------------------ macro substitution
\* The macro tokens, as the keys of the object macros spell them.
MacroPrefix == <<"$", "{", "A", "U", "C", "T", "I", "O", "N", "_">>
Macro(name) == MacroPrefix \o name \o <<"}">>
AUCTION ==
    [ID |-> Macro(<<"I", "D">>),
     BID_ID |-> Macro(<<"B", "I", "D", "_", "I", "D">>),
     IMP_ID |-> Macro(<<"I", "M", "P", "_", "I", "D">>),
     SEAT_ID |-> Macro(<<"S", "E", "A", "T", "_", "I", "D">>),
     PRICE |-> Macro(<<"P", "R", "I", "C", "E">>),
     CURRENCY |-> Macro(<<"C", "U", "R", "R", "E", "N", "C", "Y">>),
     MBR |-> Macro(<<"M", "B", "R">>),
     AD_ID |-> Macro(<<"A", "D", "_", "I", "D">>),
     LOSS |-> Macro(<<"L", "O", "S", "S">>)]

\* A bid response as replaceAuctionMacros reads it.  shape says how far the
\* chain bidResponse?.seatbid?.[0]?.bid?.[0] goes: "null" (no response),
\* "noSeatbid", "emptySeatbid", "noBid", "emptyBid", or "bid" (a bid object).
\* A string member is Undefined when absent; price is a number in tenths.
NoPrice == [present |-> FALSE, tenths |-> 0]
Price(t) == [present |-> TRUE, tenths |-> t]
NoResponse ==
    [shape |-> "null", id |-> Undefined, bidid |-> Undefined, cur |-> Undefined,
     seat |-> Undefined, bid_id |-> Undefined, impid |-> Undefined, price |-> NoPrice,
     adid |-> Undefined]

\* bidResponse?.seatbid?.[0]?.bid?.[0] is truthy
HasPayload(resp) == resp.shape = "bid"

DigitChar(d) == <<"0", "1", "2", "3", "4", "5", "6", "7", "8", "9">>[d + 1]

RECURSIVE Digits(_)
Digits(n) == IF n < 10 THEN <<DigitChar(n)>> ELSE Digits(n \div 10) \o <<DigitChar(n % 10)>>

\* Number.prototype.toString of a number given in tenths: 25 is "2.5", 20 is "2".
NumberToString(tenths) ==
    LET abs == IF tenths < 0 THEN 0 - tenths ELSE tenths
    IN  (IF tenths < 0 THEN <<"-">> ELSE <<>>)
          \o Digits(abs \div 10)
          \o (IF abs % 10 = 0 THEN <<>> ELSE <<".", DigitChar(abs % 10)>>)

\* v || "" for a string or undefined v.
OrEmpty(v) == IF v = Undefined \/ v = <<>> THEN <<>> ELSE v

\* bid.price?.toString() || ""
PriceText(p) == IF p.present THEN NumberToString(p.tenths) ELSE <<>>

\* Object.entries(macros): the nine entries in the order of the literal.
Macros(resp) ==
    <<[macro |-> AUCTION.ID,
       value |-> OrEmpty(IF OrEmpty(resp.id) # <<>> THEN resp.id ELSE resp.bidid)],
      [macro |-> AUCTION.BID_ID, value |-> OrEmpty(resp.bid_id)],
      [macro |-> AUCTION.IMP_ID, value |-> OrEmpty(resp.impid)],
      [macro |-> AUCTION.SEAT_ID, value |-> OrEmpty(resp.seat)],
      [macro |-> AUCTION.PRICE, value |-> PriceText(resp.price)],
      [macro |-> AUCTION.CURRENCY, value |-> OrEmpty(resp.cur)],
      [macro |-> AUCTION.MBR, value |-> <<>>],
      [macro |-> AUCTION.AD_ID, value |-> OrEmpty(resp.adid)],
      [macro |-> AUCTION.LOSS, value |-> <<>>]>>

\* macro.replace(/\$/g, "\\$"): the source of the regular expression.
RECURSIVE RegexSource(_)
RegexSource(macro) ==
    IF macro = <<>> THEN <<>>
    ELSE (IF Head(macro) = "$" THEN <<"\\", "$">> ELSE <<Head(macro)>>)
           \o RegexSource(Tail(macro))

\* The characters new RegExp(source, "g") matches: an escaped character stands
\* for itself, and so do the letters, "_" and the braces of a token (a brace
\* that starts no quantifier is a literal).
RECURSIVE RegexLiteral(_)
RegexLiteral(source) ==
    IF source = <<>> THEN <<>>
    ELSE IF Head(source) = "\\" /\ Len(source) >= 2
    THEN <<source[2]>> \o RegexLiteral(SubSeq(source, 3, Len(source)))
    ELSE <<Head(source)>> \o RegexLiteral(Tail(source))

\* The grave accent of the replacement pattern that stands for the text
\* before the match.
Backtick == SubSeq("`'", 1, 1)

\* GetSubstitution for a match without capture groups: in the replacement
\* text $$ is "$", $& the text matched, $` the text before the match, $' the
\* text after it; any other "$" stands for itself.
RECURSIVE GetSubstitution(_, _, _, _)
GetSubstitution(matched, before, after, rep) ==
    IF rep = <<>> THEN <<>>
    ELSE IF Head(rep) = "$" /\ Len(rep) >= 2 /\ rep[2] \in {"$", "&", Backtick, "'"}
    THEN (CASE rep[2] = "$" -> <<"$">>
            [] rep[2] = "&" -> matched
            [] rep[2] = Backtick -> before
            [] rep[2] = "'" -> after)
           \o GetSubstitution(matched, before, after, SubSeq(rep, 3, Len(rep)))
    ELSE <<Head(rep)>> \o GetSubstitution(matched, before, after, Tail(rep))

\* str.replace(regex, rep) from position i on, for a global regex that
\* matches the characters pat: every match, left to right, gives way to the
\* substitution of rep.
RECURSIVE ReplaceFrom(_, _, _, _)
ReplaceFrom(str, i, pat, rep) ==
    IF i > Len(str) THEN <<>>
    ELSE IF MatchesAt(str, i, pat)
    THEN GetSubstitution(pat, SubSeq(str, 1, i - 1),
                         SubSeq(str, i + Len(pat), Len(str)), rep)
           \o ReplaceFrom(str, i + Len(pat), pat, rep)
    ELSE <<str[i]>> \o ReplaceFrom(str, i + 1, pat, rep)

\* acc.replace(new RegExp(macro.replace(/\$/g, "\\$"), "g"), value)
ReplaceMacro(acc, entry) ==
    ReplaceFrom(acc, 1, RegexLiteral(RegexSource(entry.macro)), entry.value)

\* entries.reduce((acc, [macro, value]) => ..., url)
RECURSIVE Reduce(_, _)
Reduce(entries, acc) ==
    IF entries = <<>> THEN acc
    ELSE Reduce(Tail(entries), ReplaceMacro(acc, Head(entries)))

\* ReplaceAuctionMacros without the early return.
ReplaceAlways(url, resp) == Reduce(Macros(resp), url)

\* replaceAuctionMacros(url, bidResponse), url a string
ReplaceAuctionMacros(url, resp) ==
    IF url = <<>> \/ ~HasPayload(resp) THEN url ELSE Reduce(Macros(resp), url)

\* sendImpression goes on to fetch: if (!url) return Promise.resolve().
IssuesRequest(url) == ~(url = Undefined \/ url = NullUrl \/ url = <<>>)

\* What a bid fetch settles with.  kind "json" is a parsed 2xx body; the other
\* fields say which members of the body are present.  ad_type "nullresp" is
\* the JSON value null, "undefined" an object without ad_type.  For an ORTB
\* body adm is the markup of seatbid[0].bid[0], image, admImpression and
\* admClick say which URLs extractUrls finds in it, nurl and burl are the
\* bid's notice URLs (Undefined when absent), and resp is the body as
\* replaceAuctionMacros reads it.
NoOutcome ==
    [kind |-> "none", ad_type |-> "undefined", file |-> FALSE, video |-> FALSE,
     tracking |-> FALSE, impression_url |-> FALSE, click_url |-> FALSE,
     billable_impression_url |-> FALSE, hasBid |-> FALSE, image |-> FALSE,
     admImpression |-> FALSE, nurl |-> Undefined, burl |-> Undefined,
     destination_url |-> FALSE, landing_page_url |-> FALSE, raw_click_url |-> FALSE,
     admClick |-> FALSE, adm |-> NoAdm, resp |-> NoResponse]
Failures == {[NoOutcome EXCEPT !.kind = k] : k \in {"network_error", "http_error", "bad_json"}}
Json(t) == [NoOutcome EXCEPT !.kind = "json", !.ad_type = t]
FullCreative(t) ==
    [Json(t) EXCEPT !.file = TRUE, !.tracking = TRUE, !.impression_url = TRUE,
                    !.click_url = TRUE, !.billable_impression_url = TRUE]

\* The ORTB body {id: "r1", seatbid: [{bid: [{id: "b1", price: 2.5, adm: m,
\* nurl: n, burl: b}]}]}, nurl or burl left out when Undefined.
Ortb(m, n, b) ==
    [Json("ortb") EXCEPT !.hasBid = TRUE, !.adm = m,
                         !.image = ExtractUrls(m).imageUrl # NullUrl,
                         !.admImpression = ExtractUrls(m).impressionUrl # NullUrl,
                         !.admClick = ExtractUrls(m).clickUrl # NullUrl,
                         !.nurl = n, !.burl = b,
                         !.resp = [NoResponse EXCEPT !.shape = "bid", !.id = <<"r", "1">>,
                                                     !.bid_id = <<"b", "1">>,
                                                     !.price = Price(25)]]
FullOrtb == Ortb(Adm(Undefined, Url("y"), SendUrlCall(Url("z"))), Url("n"), Url("b"))
OrtbNoImage ==
    Ortb(Adm(Undefined, Undefined, SendUrlCall(Url("z"))), Url("n"), Url("b"))
Responses ==
    {FullCreative("brand"), [FullCreative("brand") EXCEPT !.video = TRUE],
     [Json("brand") EXCEPT !.file = TRUE], Json("brand"),
     FullOrtb, Ortb(Adm(Undefined, Url("y"), Undefined), Undefined, Undefined),
     Ortb(Adm(Undefined, Url("y"), SendUrlCall(Url("z"))), AUCTION.MBR, AUCTION.MBR),
     OrtbNoImage, Json("ortb"),
     FullCreative("testing_pid"), Json("testing_pid"),
     Json("other"), Json("undefined"), Json("nullresp")}
Outcomes == Failures \cup Responses

\* The text the listeners of the ORTB creative of response r hand to
\* sendImpression, Undefined when the listener makes no call:
\* urls.impressionUrl as extractUrls found it under if (urls.impressionUrl),
\* bid.nurl and bid.burl through replaceAuctionMacros under if (bid.nurl)
\* and if (bid.burl).
OrtbRequestUrl(label, r) ==
    LET notice == IF label = "nurl" THEN r.nurl ELSE r.burl
    IN  IF label = "impression"
        THEN (IF r.admImpression THEN ExtractUrls(r.adm).impressionUrl ELSE Undefined)
        ELSE IF OrEmpty(notice) = <<>> THEN Undefined
        ELSE ReplaceAuctionMacros(notice, r.resp)

\* ---------------------------------------------------------------- beacons
\* The urls callers hand to sendImpression: none, the empty string, a URL.
BeaconUrls == {Undefined, <<>>, Url("t")}

\* How a promise of sendImpression settled: request says whether a fetch was
\* behind it, ok how the fetch ended.
Settled(request, ok, state) == [request |-> request, ok |-> ok, state |-> state]
Settlements == [request : BOOLEAN, ok : BOOLEAN, state : {"fulfilled", "rejected"}]

VARIABLES
    now,                  \* performance.now(), the page's clock
    variant,              \* which copy of the engine runs: "ads" (ads.js) or "part001"
    pid,                  \* the pid parameter of the page URL ("" when absent)
    placeholders,         \* the .ad-placeholder elements: slot -> dataset, or NoDecl
    initPc,               \* where initialize() stands
    configDefined,        \* typeof window.adSystemConfig !== "undefined"
    attempt,              \* initialize: let attempt
    configTimer,          \* Null, or when the pending backoff setTimeout is due
    display,              \* slotElement.style.display: "shown" or "none"
    content,              \* what slotElement.innerHTML holds
    bid,                  \* the slot's bid fetch: "none", "inflight", "settled"
    bidSentAt,            \* Null, or when the slot's bid fetch was issued
    posts,                \* HTTP POSTs issued for the slot
    outcome,              \* what the slot's bid fetch settled with (NoOutcome before)
    slotPromise,          \* the promise initialize() holds for the slot
    media,                \* the slot's media element: "none", "pending", "loaded", "error"
    beacons,              \* the requests sendImpression issued for the slot, in order
    tracking,             \* element._viewabilityTracking
    visibilityStart,      \* closure variable: Null or a performance.now() value
    visibilityTimeout,    \* closure variable: Null or the id of the last timer set
    hasTriggeredBillable, \* closure variable
    timers,               \* the element's pending setTimeout timers: {[id, due]}
    nextTimer,            \* id the next setTimeout of the element returns
    observing,            \* the element's IntersectionObserver is connected
    observers,            \* IntersectionObservers ever constructed for the element
    unloadListener,       \* the element's beforeunload listener is still registered
    boundCallback,        \* which registration's callback the observer closure holds
    regCalls,             \* calls of setupViewabilityTracking on the element
    unloads,              \* beforeunload events so far
    \* history variables: they record what happened, no action reads them
    cbRuns,               \* cbRuns[e][k]: runs of the callback of the k-th registration
    aboveSince,           \* Null, or when the last unbroken run of above-threshold entries began
    firedDwell,           \* Null, or now - aboveSince at the last callback run (-2: not above then)
    tornDown,             \* the element's beforeunload listener has run
    lateRuns,             \* callback runs after the element's beforeunload listener ran
    lateEntries,          \* observer entries handled after that
    timeline,             \* progress of the element through the dwell-reset timeline
    everLoading,          \* the slot has shown the loading indicator
    pidVerdict,           \* "none", or how the check-pid fetch settled: "ok", "rejected"
    waits,                \* the lengths of the waits initialize() has completed, in order
    timerSetAt,           \* Null, or when the last backoff setTimeout was set
    definedAtCheck,       \* what the last check of window.adSystemConfig found
    loads,                \* load / loadeddata events the slot's media element has fired
    clicks,               \* click events the slot's anchor has handled
    clickFetch,           \* click-beacon fetches in flight whose settlement the handler awaits
    navTimers,            \* pending redirect timers of the slot: {[id, due, target]}
    location,             \* window.location.href: "page", or the target last assigned
    navs,                 \* history: assignments to window.location.href by the slot's handlers
    clickThrows,          \* history: click handlers of the slot that ended by an exception
    imgSrc,               \* the src of the slot's media element, Undefined without one
    anchorHref,           \* the href of the anchor around it, Undefined without one
    macroUrl,             \* the url argument of a call of replaceAuctionMacros
    macroResp,            \* its bidResponse argument
    macroOut,             \* what the call returned, Undefined before it
    sends,                \* history: how often callers handed each url to sendImpression
    beaconPromises        \* history: how many promises of sendImpression settled in each way


pageVars == <<variant, pid, placeholders>>
macroVars == <<macroUrl, macroResp, macroOut>>
beaconHist == <<sends, beaconPromises>>
initVars == <<initPc, configDefined, attempt, configTimer>>
domVars == <<imgSrc, anchorHref>>
slotVars == <<display, content, bid, bidSentAt, posts, outcome, slotPromise, media, loads,
              domVars>>
clickVars == <<clicks, clickFetch, navTimers, location, navs, clickThrows>>
vtVars == <<tracking, visibilityStart, visibilityTimeout, hasTriggeredBillable, timers,
            nextTimer, observing, observers, unloadListener, boundCallback>>
histVars == <<cbRuns, aboveSince, firedDwell, tornDown, lateRuns, lateEntries, timeline,
              everLoading>>
waitHist == <<pidVerdict, waits, timerSetAt, definedAtCheck>>
vars == <<now, pageVars, macroVars, beaconHist, initVars, slotVars, beacons, vtVars,
          regCalls, unloads, histVars,
          waitHist, clickVars>>

\* JavaScript truthiness of a value that is null or a number: !v is true for
\* null and for 0.
Falsy(v) == v = Null \/ v = 0

\* entry.isIntersecting && entry.intersectionRatio >= this.VIEWABILITY.THRESHOLD
Above(entry) == entry.isIntersecting /\ entry.intersectionRatio >= THRESHOLD

\* clearTimeout(id): the timer with that id, if still pending, is dropped.
ClearTimeout(ts, id) == {t \in ts : t.id # id}

\* Runs of any callback ever registered for the element.
TotalRuns(e) ==
    LET S[k \in 0..MaxRegs] == IF k = 0 THEN 0 ELSE S[k - 1] + cbRuns[e][k]
    IN  S[MaxRegs]

\* The page before DOMContentLoaded: nothing has run.
InitState ==
    /\ now = 0
    /\ initPc = "idle"
    /\ configDefined = FALSE
    /\ attempt = 0
    /\ configTimer = Null
    /\ display = [s \in Slots |-> "shown"]
    /\ content = [s \in Slots |-> "declared"]
    /\ bid = [s \in Slots |-> "none"]
    /\ bidSentAt = [s \in Slots |-> Null]
    /\ posts = [s \in Slots |-> 0]
    /\ outcome = [s \in Slots |-> NoOutcome]
    /\ slotPromise = [s \in Slots |-> "none"]
    /\ media = [s \in Slots |-> "none"]
    /\ beacons = [s \in Slots |-> <<>>]
    /\ tracking = [e \in Elems |-> FALSE]
    /\ visibilityStart = [e \in Elems |-> Null]
    /\ visibilityTimeout = [e \in Elems |-> Null]
    /\ hasTriggeredBillable = [e \in Elems |-> FALSE]
    /\ timers = [e \in Elems |-> {}]
    /\ nextTimer = [e \in Elems |-> 1]
    /\ observing = [e \in Elems |-> FALSE]
    /\ observers = [e \in Elems |-> 0]
    /\ unloadListener = [e \in Elems |-> FALSE]
    /\ boundCallback = [e \in Elems |-> 0]
    /\ regCalls = [e \in Elems |-> 0]
    /\ unloads = 0
    /\ cbRuns = [e \in Elems |-> [k \in 1..MaxRegs |-> 0]]
    /\ aboveSince = [e \in Elems |-> Null]
    /\ firedDwell = [e \in Elems |-> Null]
    /\ tornDown = [e \in Elems |-> FALSE]
    /\ lateRuns = [e \in Elems |-> 0]
    /\ lateEntries = [e \in Elems |-> 0]
    /\ timeline = [e \in Elems |-> "start"]
    /\ everLoading = [s \in Slots |-> FALSE]
    /\ pidVerdict = "none"
    /\ waits = <<>>
    /\ timerSetAt = Null
    /\ definedAtCheck = FALSE
    /\ loads = [s \in Slots |-> 0]
    /\ clicks = [s \in Slots |-> 0]
    /\ clickFetch = [s \in Slots |-> 0]
    /\ navTimers = [s \in Slots |-> {}]
    /\ location = "page"
    /\ navs = [s \in Slots |-> <<>>]
    /\ clickThrows = [s \in Slots |-> 0]
    /\ imgSrc = [s \in Slots |-> Undefined]
    /\ anchorHref = [s \in Slots |-> Undefined]
    /\ macroOut = Undefined
    /\ sends = [s \in Slots |-> [u \in BeaconUrls |-> 0]]
    /\ beaconPromises = [s \in Slots |-> [k \in Settlements |-> 0]]

\* replaceAuctionMacros is not called.
NoMacroCall == macroUrl = <<>> /\ macroResp = NoResponse

FirstSlot == CHOOSE s \in Slots : \A t \in Slots : s <= t

\* A page with one placeholder, slot FirstSlot.
Init ==
    /\ InitState
    /\ NoMacroCall
    /\ variant \in Variants
    /\ pid = "p1"
    /\ \E d \in {GoodDecl, [GoodDecl EXCEPT !.slot_id = <<"0">>]} :
          placeholders = [s \in Slots |-> IF s = FirstSlot THEN d ELSE NoDecl]

\* A page with NumSlots placeholders.
InitOrch ==
    /\ InitState
    /\ NoMacroCall
    /\ variant \in Variants
    /\ pid \in {"", "p1"}
    /\ \E d \in RichDecls : \E f \in [Slots \ {FirstSlot} -> OrchDecls] :
          placeholders = [s \in Slots |-> IF s = FirstSlot THEN d ELSE f[s]]

\* No page: one media element handed to setupViewabilityTracking directly.
InitVT ==
    /\ InitState
    /\ NoMacroCall
    /\ variant \in Variants
    /\ pid = ""
    /\ placeholders = [s \in Slots |-> NoDecl]

\* ------------------------------------------------------ history bookkeeping
\* The timeline visible(t=0, 0.6), visible(t=400, 0.4), visible(t=500, 0.6):
\* "s3" once exactly these three entries were delivered at these instants and
\* nothing else before the callback ran; entries that follow a callback run
\* keep "s3".
NextTimeline(e, entry) ==
    LET vis(r) == [isIntersecting |-> TRUE, intersectionRatio |-> r]
    IN  CASE timeline[e] = "start" /\ now = 0 /\ entry = vis(6) -> "s1"
          [] timeline[e] = "s1" /\ now = 400 /\ entry = vis(4) -> "s2"
          [] timeline[e] = "s2" /\ now = 500 /\ entry = vis(6) -> "s3"
          [] timeline[e] = "s3" /\ TotalRuns(e) > 0 -> "s3"
          [] OTHER -> "off"

EntryHistory(e, entry) ==
    /\ aboveSince' = [aboveSince EXCEPT ![e] =
                        IF Above(entry)
                        THEN (IF aboveSince[e] = Null THEN now ELSE aboveSince[e])
                        ELSE Null]
    /\ timeline' = [timeline EXCEPT ![e] = NextTimeline(e, entry)]
    /\ lateEntries' = [lateEntries EXCEPT ![e] = IF tornDown[e] THEN 1 ELSE @]

\* ------------------------------------------------------ viewability tracker
\* if (element._viewabilityTracking) return;
AlreadyTracked(e) == tracking[e]

\* setupViewabilityTracking(element, callback), the next call on the element.
SetupViewabilityTracking(e) ==
    /\ regCalls[e] < MaxRegs
    /\ regCalls' = [regCalls EXCEPT ![e] = @ + 1]
    /\ IF AlreadyTracked(e)
       THEN UNCHANGED vtVars
       ELSE /\ tracking' = [tracking EXCEPT ![e] = TRUE]
            /\ visibilityStart' = [visibilityStart EXCEPT ![e] = Null]
            /\ visibilityTimeout' = [visibilityTimeout EXCEPT ![e] = Null]
            /\ hasTriggeredBillable' = [hasTriggeredBillable EXCEPT ![e] = FALSE]
            /\ observers' = [observers EXCEPT ![e] = @ + 1]
            /\ observing' = [observing EXCEPT ![e] = TRUE]
            /\ unloadListener' = [unloadListener EXCEPT ![e] = TRUE]
            /\ boundCallback' = [boundCallback EXCEPT ![e] = regCalls[e] + 1]
            /\ UNCHANGED <<timers, nextTimer>>

\* The observer callback starts a dwell: if (!visibilityStart).
StartsDwell(e) == Falsy(visibilityStart[e])

\* The observer callback resets a dwell: if (visibilityStart).
ResetsDwell(e) == ~Falsy(visibilityStart[e])

\* An observed element can intersect the viewport only while it is in the
\* document and displayed; an element outside any slot always can.
CanIntersect(e) ==
    ~placeholders[e].present \/ (content[e] = "creative" /\ display[e] = "shown")

\* The IntersectionObserver callback; entry is entries[0].
ObserverCallback(e, entry) ==
    /\ observing[e]
    /\ Above(entry) => CanIntersect(e)
    /\ IF Above(entry)
       THEN IF StartsDwell(e)
            THEN /\ nextTimer[e] <= MaxTimers
                 /\ visibilityStart' = [visibilityStart EXCEPT ![e] = now]
                 /\ timers' = [timers EXCEPT ![e] =
                                 @ \cup {[id |-> nextTimer[e], due |-> now + DURATION]}]
                 /\ visibilityTimeout' = [visibilityTimeout EXCEPT ![e] = nextTimer[e]]
                 /\ nextTimer' = [nextTimer EXCEPT ![e] = @ + 1]
            ELSE UNCHANGED <<visibilityStart, timers, visibilityTimeout, nextTimer>>
       ELSE /\ IF ResetsDwell(e)
               THEN /\ timers' = [timers EXCEPT ![e] = ClearTimeout(@, visibilityTimeout[e])]
                    /\ visibilityStart' = [visibilityStart EXCEPT ![e] = Null]
               ELSE UNCHANGED <<visibilityStart, timers>>
            /\ UNCHANGED <<visibilityTimeout, nextTimer>>
    /\ EntryHistory(e, entry)
    /\ UNCHANGED <<now, pageVars, macroVars, beaconHist, clickVars, waitHist, initVars,
                   slotVars, beacons, tracking,
                   hasTriggeredBillable, observing, observers, unloadListener,
                   boundCallback, regCalls, unloads,
                   cbRuns, firedDwell, tornDown, lateRuns, everLoading>>

\* The requests the billable callback of a creative issues: the brand and
\* testing creatives send tracking.billable_impression_url when present, the
\* ORTB creative the billable journey event and then burl when present;
\* sendImpression issues no request for a burl the macros leave empty.  The
\* callback of an element outside any slot sends nothing.
CallbackBeacons(r) ==
    CASE r.kind = "json" /\ r.ad_type \in {"brand", "testing_pid"} ->
            IF r.tracking /\ r.billable_impression_url THEN <<"billable">> ELSE <<>>
      [] r.kind = "json" /\ r.ad_type = "ortb" ->
            <<"journey_billable">>
              \o (IF IssuesRequest(OrtbRequestUrl("burl", r)) THEN <<"burl">> ELSE <<>>)
      [] OTHER -> <<>>

\* MayTrigger without the one-shot flag: every timer that comes due calls back.
MayTriggerUnguarded(e) == TRUE

\* MayTrigger with one flag for the whole page instead of one per call.
MayTriggerShared(e) == ~hasTriggeredBillable[FirstSlot]

\* The guard of the timer callback: if (!hasTriggeredBillable).
MayTrigger(e) == ~hasTriggeredBillable[e]

\* The ORTB listener of slot s that sends the notice label hands
\* sendImpression a text it issues no request for (the notice is present and
\* the macros leave it empty): one more call with "" and one more promise
\* settled without a request.
EmptyCall(s, label) ==
    LET url == OrtbRequestUrl(label, outcome[s])
    IN  IF outcome[s].ad_type = "ortb" /\ url = <<>>
        THEN /\ sends' = [sends EXCEPT ![s][url] = @ + 1]
             /\ beaconPromises' = [beaconPromises EXCEPT
                                     ![s][Settled(FALSE, TRUE, "fulfilled")] = @ + 1]
        ELSE UNCHANGED beaconHist

\* callback(): the callback the observer's closure holds runs.
RunCallback(e) ==
    /\ cbRuns' = [cbRuns EXCEPT ![e][boundCallback[e]] = @ + 1]
    /\ beacons' = [beacons EXCEPT ![e] = @ \o CallbackBeacons(outcome[e])]
    /\ firedDwell' = [firedDwell EXCEPT ![e] =
                        IF aboveSince[e] = Null THEN 0 - 2 ELSE now - aboveSince[e]]
    /\ lateRuns' = [lateRuns EXCEPT ![e] = IF tornDown[e] THEN 1 ELSE @]
    /\ EmptyCall(e, "burl")

\* The setTimeout callback of one pending timer, at the instant it is due.
DwellTimerFire(e, t) ==
    /\ t \in timers[e]
    /\ t.due <= now
    /\ timers' = [timers EXCEPT ![e] = @ \ {t}]
    /\ IF MayTrigger(e)
       THEN /\ hasTriggeredBillable' = [hasTriggeredBillable EXCEPT ![e] = TRUE]
            /\ RunCallback(e)
            /\ observing' = [observing EXCEPT ![e] = FALSE]
       ELSE UNCHANGED <<hasTriggeredBillable, observing, cbRuns, beacons, firedDwell,
                        lateRuns, beaconHist>>
    /\ UNCHANGED <<now, pageVars, macroVars, clickVars, waitHist, initVars,
                   slotVars, tracking,
                   visibilityStart, visibilityTimeout, nextTimer, observers, unloadListener,
                   boundCallback, regCalls, unloads, aboveSince, tornDown, lateEntries,
                   timeline, everLoading>>

\* What one element's beforeunload listener leaves pending:
\* if (visibilityTimeout) clearTimeout(visibilityTimeout).
UnloadClears(e) ==
    IF Falsy(visibilityTimeout[e]) THEN timers[e]
    ELSE ClearTimeout(timers[e], visibilityTimeout[e])

\* A beforeunload event: every listener still registered runs, once.
BeforeUnload ==
    /\ unloads < MaxUnloads
    /\ unloads' = unloads + 1
    /\ observing' = [e \in Elems |-> IF unloadListener[e] THEN FALSE ELSE observing[e]]
    /\ timers' = [e \in Elems |-> IF unloadListener[e] THEN UnloadClears(e) ELSE timers[e]]
    /\ unloadListener' = [e \in Elems |-> FALSE]
    /\ tornDown' = [e \in Elems |-> tornDown[e] \/ unloadListener[e]]
    /\ timeline' = [e \in Elems |-> "off"]
    /\ UNCHANGED <<now, pageVars, macroVars, beaconHist, clickVars, waitHist, initVars,
                   slotVars, beacons,
                   tracking, visibilityStart, visibilityTimeout, hasTriggeredBillable,
                   nextTimer, observers, boundCallback, regCalls, cbRuns, aboveSince,
                   firedDwell, lateRuns, lateEntries, everLoading>>

\* The clock advances by d, not past a pending timer.
TickBy(d, limit) ==
    /\ now + d <= limit
    /\ \A e \in Elems : \A t \in timers[e] \cup navTimers[e] : t.due >= now + d
    /\ configTimer = Null \/ configTimer >= now + d
    /\ now' = now + d
    /\ UNCHANGED <<pageVars, macroVars, beaconHist, waitHist, clickVars, initVars,
                   slotVars, beacons, vtVars,
                   regCalls, unloads, histVars>>

Tick == TickBy(TickMs, MaxTime)

\* A caller hands the element to setupViewabilityTracking.
Register(e) ==
    /\ SetupViewabilityTracking(e)
    /\ UNCHANGED <<now, pageVars, macroVars, beaconHist, clickVars, waitHist, initVars,
                   slotVars, beacons, unloads,
                   histVars>>

NextVT ==
    \/ Register(FirstSlot)
    \/ \E entry \in Entries : ObserverCallback(FirstSlot, entry)
    \/ \E t \in timers[FirstSlot] : DwellTimerFire(FirstSlot, t)
    \/ BeforeUnload
    \/ Tick

SpecVT == InitVT /\ [][NextVT]_vars

\* Two media elements, each handed to setupViewabilityTracking once as a
\* renderer does with the element it has just created, their entries, timers
\* and the unload in any order; each entry is above the threshold or below
\* it, and the clock goes in steps of half a DURATION.
NextPair ==
    \/ \E e \in {FirstSlot, FirstSlot + 1} : regCalls[e] = 0 /\ Register(e)
    \/ \E e \in {FirstSlot, FirstSlot + 1} :
          \E entry \in {n \in Entries : n.intersectionRatio \in {0, THRESHOLD}} :
             ObserverCallback(e, entry)
    \/ \E e \in {FirstSlot, FirstSlot + 1} : \E t \in timers[e] : DwellTimerFire(e, t)
    \/ BeforeUnload
    \/ TickBy(DURATION \div 2, MaxTime)

SpecPair == InitVT /\ [][NextPair]_vars

\* ----------------------------------------------------------- orchestrator
RECURSIVE Pow2(_)
Pow2(n) == IF n = 0 THEN 1 ELSE 2 * Pow2(n - 1)

\* BackoffDelay without the exponent: every wait lasts the base delay.
BackoffConstant(att) == baseDelay

\* const delay = baseDelay * Math.pow(2, attempt)
BackoffDelay(att) == baseDelay * Pow2(att)

\* The placeholder's dataset passes if (width && height && slot_id).
Valid(s) == placeholders[s].present /\ ValidSlot(ParseSlot(placeholders[s]))
Misconfigured(s) == placeholders[s].present /\ ~ValidSlot(ParseSlot(placeholders[s]))

\* FailContent for a handler that leaves the slot as it is.
FailContentKeep(c) == c

\* The failure handler of initialize, loadAdForSlot, renderAd and
\* renderTestingPidAd: showError in part_001 replaces the slot's content by
\* the error box, hideAdSlot in ads.js sets display none and leaves the content.
FailContent(c) == IF variant = "part001" THEN "error" ELSE c
FailDisplay(d) == IF variant = "ads" THEN "none" ELSE d

\* JoinOutcome as Promise.race would settle: with the first promise that does.
JoinOutcomeRace(promises) ==
    IF \A s \in Slots : promises[s] = "pending" THEN "pending" ELSE "fulfilled"

\* await Promise.allSettled(slotPromises): pending while any promise is.
JoinOutcome(promises) ==
    IF \E s \in Slots : promises[s] = "pending" THEN "pending" ELSE "fulfilled"

\* AfterJoin for an initialize() that is ready to run again once it has ended.
AfterJoinRestart(j) == IF j = "pending" THEN "slots" ELSE "idle"

\* initialize() after the join: any settlement of it, caught or not, ends the call.
AfterJoin(j) == IF j = "pending" THEN "slots" ELSE "done"

\* Touched for a pipeline that works on every placeholder of the page.
TouchedAll(s) == Slots

\* The slots whose placeholder the settlement of slot s's pipeline touches:
\* loadAdForSlot works on its own slotElement only.
Touched(s) == {s}

\* The map over the placeholders in initialize(): a valid slot gets its size,
\* the loading indicator and its bid request (loadAdForSlot runs to its fetch),
\* any other the failure handler and a resolved promise.
DispatchSlots ==
    /\ content' = [s \in Slots |-> IF Valid(s) THEN "loading"
                                   ELSE IF Misconfigured(s) THEN FailContent(content[s])
                                   ELSE content[s]]
    /\ display' = [s \in Slots |-> IF Misconfigured(s) THEN FailDisplay(display[s])
                                   ELSE display[s]]
    /\ bid' = [s \in Slots |-> IF Valid(s) THEN "inflight" ELSE bid[s]]
    /\ bidSentAt' = [s \in Slots |-> IF Valid(s) THEN now ELSE bidSentAt[s]]
    /\ posts' = [s \in Slots |-> IF Valid(s) THEN posts[s] + 1 ELSE posts[s]]
    /\ slotPromise' = [s \in Slots |-> IF Valid(s) THEN "pending"
                                       ELSE IF Misconfigured(s) THEN "fulfilled"
                                       ELSE slotPromise[s]]
    /\ everLoading' = [s \in Slots |-> everLoading[s] \/ Valid(s)]
    /\ initPc' = AfterJoin(JoinOutcome(slotPromise'))
    /\ UNCHANGED <<outcome, media, loads, domVars>>

\* initialize() at the head of its wait loop, on attempt att, having read
\* typeof window.adSystemConfig as defined or not.
ConfigLoop(defined, att) ==
    /\ attempt' = att
    /\ definedAtCheck' = defined
    /\ IF ~defined /\ att < maxRetries
       THEN /\ initPc' = "waitConfig"
            /\ configTimer' = now + BackoffDelay(att)
            /\ timerSetAt' = now
            /\ UNCHANGED <<slotVars, everLoading>>
       ELSE IF ~defined
       THEN /\ initPc' = "aborted"
            /\ configTimer' = Null
            /\ UNCHANGED <<slotVars, everLoading, timerSetAt>>
       ELSE /\ configTimer' = Null
            /\ DispatchSlots
            /\ UNCHANGED timerSetAt

trackerHist == <<cbRuns, aboveSince, firedDwell, tornDown, lateRuns, lateEntries, timeline>>

\* initialize() from its call to its first await, window.adSystemConfig being
\* defined or not: part_001 starts with validatePID (false at once when the
\* URL has no pid, else a fetch), ads.js with the wait loop.
StartInitialize(defined) ==
    /\ initPc = "idle"
    /\ IF variant = "ads"
       THEN ConfigLoop(defined, 0)
       ELSE /\ initPc' = IF pid = "" THEN "aborted" ELSE "pid"
            /\ UNCHANGED <<attempt, configTimer, slotVars, everLoading, timerSetAt,
                           definedAtCheck>>
    /\ UNCHANGED <<now, pageVars, macroVars, beaconHist, clickVars, pidVerdict, waits,
                   beacons, vtVars, regCalls,
                   unloads, trackerHist>>

\* The DOMContentLoaded event.  part_001 has one listener: it runs
\* initializeAdSystemConfig and then initialize().  ads.js has the document's
\* listener, which calls initialize(), and then the window's listener, which
\* runs initializeAdSystemConfig.
DOMContentLoaded ==
    /\ configDefined' = TRUE
    /\ StartInitialize(IF variant = "ads" THEN configDefined ELSE TRUE)

\* initialize() called on a page whose configuration is set by someone else,
\* if at all.
Initialize ==
    /\ StartInitialize(configDefined)
    /\ UNCHANGED configDefined

\* window.adSystemConfig = {...}
ConfigArrives ==
    /\ ~configDefined
    /\ configDefined' = TRUE
    /\ UNCHANGED <<now, pageVars, macroVars, beaconHist, clickVars, waitHist, initPc,
                   attempt, configTimer,
                   slotVars, beacons, vtVars, regCalls, unloads, histVars>>

\* PidSuccess for a gate that lets every answer pass.
PidSuccessAlways(ok) == TRUE

\* return result.success === true
PidSuccess(ok) == ok

\* The check-pid fetch settles: with success === true, or with anything else
\* (another body, a failed fetch, a body that is no JSON).
PidResponse(ok) ==
    /\ initPc = "pid"
    /\ pidVerdict' = IF ok THEN "ok" ELSE "rejected"
    /\ IF PidSuccess(ok)
       THEN ConfigLoop(configDefined, 0)
       ELSE /\ initPc' = "aborted"
            /\ UNCHANGED <<attempt, configTimer, slotVars, everLoading, timerSetAt,
                           definedAtCheck>>
    /\ UNCHANGED <<now, pageVars, macroVars, beaconHist, clickVars, waits, configDefined,
                   beacons, vtVars,
                   regCalls, unloads, trackerHist>>

\* The backoff setTimeout of the wait loop comes due.
ConfigTimerFire ==
    /\ initPc = "waitConfig"
    /\ configTimer # Null /\ configTimer <= now
    /\ waits' = Append(waits, now - timerSetAt)
    /\ ConfigLoop(configDefined, attempt + 1)
    /\ UNCHANGED <<now, pageVars, macroVars, beaconHist, clickVars, pidVerdict,
                   configDefined, beacons, vtVars,
                   regCalls, unloads, trackerHist>>

\* Renderable for a renderer without any guard.
RenderableAny(r) == TRUE

\* Renderable for renderers that build the creative of every known type.
RenderableByType(r) == r.ad_type \in {"brand", "ortb", "testing_pid"}

\* The renderer of copy v builds the creative: brand with full_file_path,
\* ORTB with a bid whose markup yields an image URL, testing_pid (ads.js
\* only) with full_file_path.
RenderableIn(v, r) ==
    CASE r.ad_type = "brand" -> r.file
      [] r.ad_type = "ortb" -> r.hasBid /\ r.image
      [] r.ad_type = "testing_pid" -> v = "ads" /\ r.file
      [] OTHER -> FALSE

\* The same for the copy that runs.
Renderable(r) == RenderableIn(variant, r)

\* Copy v reports a failure about response r with showError: part_001 always,
\* ads.js in renderBrandAd and renderOrtbAd.
UsesShowErrorIn(v, r) == v = "part001" \/ r.ad_type \in {"brand", "ortb"}

\* The same for the copy that runs.
UsesShowError(r) == UsesShowErrorIn(variant, r)

\* The value of ad.full_file_path.
FilePath == <<"full_file_path">>

\* mediaElement.src = ad.full_file_path; img.src = urls.imageUrl
MediaSrc(r) == IF r.ad_type = "ortb" THEN ExtractUrls(r.adm).imageUrl ELSE FilePath

\* anchor.href = "#" in the brand and testing renderers,
\* anchor.href = urls.clickUrl || "#" in the ORTB renderer.
AnchorHref(r) ==
    IF r.ad_type = "ortb" /\ ExtractUrls(r.adm).clickUrl # NullUrl
    THEN ExtractUrls(r.adm).clickUrl
    ELSE <<"#">>

\* The slot's bid fetch settles with outcome o, and loadAdForSlot runs on: a
\* failure goes to its catch, a parsed body to renderAd, which clears the
\* slot and dispatches on ad_type.
BidResponse(s, o) ==
    /\ bid[s] = "inflight"
    /\ bid' = [bid EXCEPT ![s] = "settled"]
    /\ outcome' = [outcome EXCEPT ![s] = o]
    /\ slotPromise' = [t \in Slots |-> IF t \in Touched(s) THEN "fulfilled"
                                       ELSE slotPromise[t]]
    /\ initPc' = AfterJoin(JoinOutcome(slotPromise'))
    /\ IF o.kind # "json"
       THEN /\ content' = [t \in Slots |-> IF t \in Touched(s) THEN FailContent(content[t])
                                           ELSE content[t]]
            /\ display' = [t \in Slots |-> IF t \in Touched(s) THEN FailDisplay(display[t])
                                           ELSE display[t]]
            /\ UNCHANGED <<media, domVars, vtVars, regCalls>>
       ELSE IF Renderable(o)
       THEN /\ content' = [content EXCEPT ![s] = "creative"]
            /\ media' = [media EXCEPT ![s] = "pending"]
            /\ imgSrc' = [imgSrc EXCEPT ![s] = MediaSrc(o)]
            /\ anchorHref' = [anchorHref EXCEPT ![s] = AnchorHref(o)]
            /\ SetupViewabilityTracking(s)
            /\ UNCHANGED display
       ELSE /\ content' = [content EXCEPT ![s] = IF UsesShowError(o) THEN "error" ELSE "empty"]
            /\ display' = [display EXCEPT ![s] = IF UsesShowError(o) THEN @ ELSE "none"]
            /\ UNCHANGED <<media, domVars, vtVars, regCalls>>
    /\ UNCHANGED <<now, pageVars, macroVars, beaconHist, clickVars, waitHist,
                   configDefined, attempt, configTimer,
                   bidSentAt, posts, loads, beacons, unloads, histVars>>

\* The requests the load listener of a creative issues: the brand and testing
\* creatives send tracking.impression_url when present; the ORTB creative
\* sends the markup's on-load URL and the impression journey event when the
\* markup has that URL, and nurl when present; sendImpression issues no
\* request for a nurl the macros leave empty.
LoadBeacons(r) ==
    CASE r.ad_type \in {"brand", "testing_pid"} ->
            IF r.tracking /\ r.impression_url THEN <<"impression">> ELSE <<>>
      [] r.ad_type = "ortb" ->
            (IF r.admImpression THEN <<"impression", "journey_impression">> ELSE <<>>)
              \o (IF IssuesRequest(OrtbRequestUrl("nurl", r)) THEN <<"nurl">> ELSE <<>>)
      [] OTHER -> <<>>

\* A load (image) or loadeddata (video) event on the media element, the first
\* or a later one: the listener stays registered and runs on each.
MediaLoad(s) ==
    /\ content[s] = "creative"
    /\ media[s] \in {"pending", "loaded"}
    /\ loads[s] < MaxLoads
    /\ loads' = [loads EXCEPT ![s] = @ + 1]
    /\ media' = [media EXCEPT ![s] = "loaded"]
    /\ beacons' = [beacons EXCEPT ![s] = @ \o LoadBeacons(outcome[s])]
    /\ EmptyCall(s, "nurl")
    /\ UNCHANGED <<now, pageVars, macroVars, clickVars, waitHist, initVars,
                   display, content, bid,
                   bidSentAt, posts, outcome, slotPromise, domVars, vtVars, regCalls,
                   unloads, histVars>>

\* The media element's error event: the image did not load, or the video
\* failed before or after its first frame.
MediaError(s) ==
    /\ content[s] = "creative"
    /\ media[s] = "pending" \/ (media[s] = "loaded" /\ outcome[s].video)
    /\ media' = [media EXCEPT ![s] = "error"]
    /\ content' = [content EXCEPT ![s] = IF UsesShowError(outcome[s]) THEN "error" ELSE @]
    /\ display' = [display EXCEPT ![s] = IF UsesShowError(outcome[s]) THEN @ ELSE "none"]
    /\ UNCHANGED <<now, pageVars, macroVars, beaconHist, clickVars, waitHist, initVars,
                   bid, bidSentAt, posts,
                   outcome, slotPromise, loads, domVars, beacons, vtVars, regCalls, unloads,
                   histVars>>

\* ------------------------------------------------------------------ clicks
\* The brand handlers: ad.tracking.destination_url || ad.landing_page_url ||
\* ad.click_url || "#"; the testing handler: ad.tracking.destination_url || "#".
Destination(r) ==
    IF r.ad_type = "brand"
    THEN (IF r.destination_url THEN "destination_url"
          ELSE IF r.landing_page_url THEN "landing_page_url"
          ELSE IF r.raw_click_url THEN "click_url"
          ELSE "#")
    ELSE (IF r.destination_url THEN "destination_url" ELSE "#")

\* The ORTB handler assigns urls.clickUrl, which extractUrls leaves null when
\* the markup has no anchor href; the assignment turns null into the text "null".
OrtbTarget(r) == IF r.admClick THEN "adm_href" ELSE "null"

\* The brand and testing handlers read ad.tracking.destination_url (the brand
\* handler of ads.js in its first statement): a TypeError when the response
\* has no tracking object.
HandlerThrows(r) == ~r.tracking

\* if (ad.tracking?.click_url)
HasClickBeacon(r) == r.tracking /\ r.click_url

\* window.location.href = target
Navigate(s, target) ==
    /\ location' = target
    /\ navs' = [navs EXCEPT ![s] = Append(@, target)]

\* setTimeout(() => { window.location.href = target }, 100)
SetNavTimer(s, target) ==
    navTimers' = [navTimers EXCEPT ![s] =
                    @ \cup {[id |-> Len(navs[s]) + Cardinality(@) + 1,
                             due |-> now + NavDelay, target |-> target]}]

\* A click on the creative's anchor.
Click(s) ==
    /\ content[s] = "creative" /\ display[s] = "shown"
    /\ clicks[s] < MaxClicks
    /\ clicks' = [clicks EXCEPT ![s] = @ + 1]
    /\ LET r == outcome[s]
       IN  IF r.ad_type = "ortb"
           THEN /\ beacons' = [beacons EXCEPT ![s] = Append(@, "journey_click")]
                /\ SetNavTimer(s, OrtbTarget(r))
                /\ UNCHANGED <<clickFetch, location, navs, clickThrows>>
           ELSE IF HandlerThrows(r)
           THEN /\ clickThrows' = [clickThrows EXCEPT ![s] = @ + 1]
                /\ UNCHANGED <<beacons, clickFetch, navTimers, location, navs>>
           ELSE IF HasClickBeacon(r)
           THEN /\ beacons' = [beacons EXCEPT ![s] = Append(@, "click")]
                /\ clickFetch' = [clickFetch EXCEPT ![s] = @ + 1]
                /\ UNCHANGED <<navTimers, location, navs, clickThrows>>
           ELSE /\ Navigate(s, Destination(r))
                /\ UNCHANGED <<beacons, clickFetch, navTimers, clickThrows>>
    /\ UNCHANGED <<now, pageVars, macroVars, beaconHist, waitHist, initVars, slotVars,
                   vtVars, regCalls, unloads,
                   histVars>>

\* SendImpressionPromise for a sendImpression that returns fetch's promise.
SendImpressionUncaught(ok) == IF ok THEN "fulfilled" ELSE "rejected"

\* return fetch(url, {...}).catch(err => { console.warn(...) }): the promise
\* of fetch is fulfilled with the response or rejected when the request
\* fails; the handler returns, so the promise handed out is fulfilled on
\* either outcome.
SendImpressionPromise(ok) ==
    LET fetchPromise == IF ok THEN "fulfilled" ELSE "rejected"
    IN  IF fetchPromise = "rejected" THEN "fulfilled" ELSE fetchPromise

\* The slot's promises that settled with a fetch behind them.
RECURSIVE SumOver(_, _)
SumOver(f, S) ==
    IF S = {} THEN 0
    ELSE LET k == CHOOSE k \in S : TRUE IN f[k] + SumOver(f, S \ {k})

\* The slot's requests whose fetch has not settled and that no handler waits for.
InFlight(s) ==
    Len(beacons[s]) - clickFetch[s]
      - SumOver(beaconPromises[s], {k \in Settlements : k.request})

\* The click beacon's fetch settles.  The handler chained then(...) and
\* catch(...) to sendImpression's promise: fulfilled, the then-callback sets
\* the redirect timer; rejected, the catch-callback redirects at once.
ClickBeaconSettle(s, ok) ==
    /\ clickFetch[s] > 0
    /\ clickFetch' = [clickFetch EXCEPT ![s] = @ - 1]
    /\ beaconPromises' = [beaconPromises EXCEPT
                            ![s][Settled(TRUE, ok, SendImpressionPromise(ok))] = @ + 1]
    /\ IF SendImpressionPromise(ok) = "fulfilled"
       THEN /\ SetNavTimer(s, Destination(outcome[s]))
            /\ UNCHANGED <<location, navs>>
       ELSE /\ Navigate(s, Destination(outcome[s]))
            /\ UNCHANGED navTimers
    /\ UNCHANGED <<now, pageVars, macroVars, sends, waitHist, initVars, slotVars, beacons,
                   vtVars, regCalls, unloads, histVars, clicks, clickThrows>>

\* The fetch of a request nobody waits for settles.
BeaconSettle(s, ok) ==
    /\ InFlight(s) > 0
    /\ beaconPromises' = [beaconPromises EXCEPT
                            ![s][Settled(TRUE, ok, SendImpressionPromise(ok))] = @ + 1]
    /\ UNCHANGED <<now, pageVars, macroVars, sends, waitHist, initVars, slotVars, beacons,
                   vtVars, regCalls, unloads, histVars, clickVars>>

\* A caller hands url to sendImpression and does not wait for the promise.
SendImpression(s, url) ==
    /\ SumOver(sends[s], BeaconUrls) < MaxSends
    /\ sends' = [sends EXCEPT ![s][url] = @ + 1]
    /\ IF IssuesRequest(url)
       THEN /\ beacons' = [beacons EXCEPT ![s] = Append(@, "direct")]
            /\ UNCHANGED beaconPromises
       ELSE /\ beaconPromises' = [beaconPromises EXCEPT
                                    ![s][Settled(FALSE, TRUE, "fulfilled")] = @ + 1]
            /\ UNCHANGED beacons
    /\ UNCHANGED <<now, pageVars, macroVars, waitHist, initVars, slotVars, vtVars, regCalls,
                   unloads, histVars, clickVars>>

\* A redirect timer comes due.
NavTimerFire(s, t) ==
    /\ t \in navTimers[s]
    /\ t.due <= now
    /\ navTimers' = [navTimers EXCEPT ![s] = @ \ {t}]
    /\ Navigate(s, t.target)
    /\ UNCHANGED <<now, pageVars, macroVars, beaconHist, waitHist, initVars, slotVars,
                   beacons, vtVars, regCalls,
                   unloads, histVars, clicks, clickFetch, clickThrows>>

\* In the orchestrator runs the clock starts at DOMContentLoaded and goes to
\* the pending backoff timer, or by two base delays when none is pending.
OrchTick ==
    /\ initPc # "idle"
    /\ TickBy(IF configTimer = Null THEN 2 * baseDelay ELSE configTimer - now, OrchMaxTime)

\* The outcomes the orchestrator runs draw from.
OrchOutcomes ==
    {[NoOutcome EXCEPT !.kind = "network_error"], FullCreative("brand"),
     OrtbNoImage, FullCreative("testing_pid")}

\* One slot from the placeholder to the end of its creative's life.
Next ==
    \/ DOMContentLoaded
    \/ \E ok \in BOOLEAN : PidResponse(ok)
    \/ ConfigTimerFire
    \/ \E o \in Outcomes : BidResponse(FirstSlot, o)
    \/ MediaLoad(FirstSlot)
    \/ MediaError(FirstSlot)
    \/ \E entry \in Entries : ObserverCallback(FirstSlot, entry)
    \/ \E t \in timers[FirstSlot] : DwellTimerFire(FirstSlot, t)
    \/ BeforeUnload
    \/ Tick

Spec == Init /\ [][Next]_vars

\* initialize() over all the page's placeholders, up to its return.
NextOrch ==
    \/ DOMContentLoaded
    \/ \E ok \in BOOLEAN : PidResponse(ok)
    \/ ConfigTimerFire
    \/ \E s \in Slots : \E o \in OrchOutcomes : BidResponse(s, o)
    \/ OrchTick

SpecOrch == InitOrch /\ [][NextOrch]_vars

\* In the wait runs the clock goes from one backoff timer to the next.
WaitMaxTime == baseDelay * Pow2(maxRetries)
WaitTick ==
    /\ initPc = "waitConfig"
    /\ TickBy(configTimer - now, WaitMaxTime)

\* initialize() called while the configuration may arrive at any time or never.
NextWait ==
    \/ Initialize
    \/ ConfigArrives
    \/ \E ok \in BOOLEAN : PidResponse(ok)
    \/ ConfigTimerFire
    \/ WaitTick

SpecWait == InitOrch /\ [][NextWait]_vars

\* The creatives the click runs draw from: every combination of the fields
\* the click handlers read.
ClickOutcomes ==
    {[Json(t) EXCEPT !.file = TRUE, !.tracking = tr, !.click_url = tr /\ c,
                     !.destination_url = tr /\ d,
                     !.landing_page_url = (t = "brand") /\ l,
                     !.raw_click_url = (t = "brand") /\ k] :
        t \in {"brand", "testing_pid"}, tr \in BOOLEAN, c \in BOOLEAN, d \in BOOLEAN,
        l \in BOOLEAN, k \in BOOLEAN}
      \cup {Ortb(Adm(h, Url("y"), Undefined), Undefined, Undefined) :
              h \in {Undefined, Url("x")}}

\* In the click runs the clock goes to the nearest pending timer.
ClickMaxTime == baseDelay + (MaxClicks + 1) * NavDelay
ClickTick ==
    LET dues == {t.due : t \in navTimers[FirstSlot]}
                  \cup (IF configTimer = Null THEN {} ELSE {configTimer})
    IN  /\ dues # {}
        /\ \E m \in dues : (\A d \in dues : m <= d) /\ TickBy(m - now, ClickMaxTime)

\* One slot from the placeholder to the clicks on its creative.
NextClick ==
    \/ DOMContentLoaded
    \/ \E ok \in BOOLEAN : PidResponse(ok)
    \/ ConfigTimerFire
    \/ \E o \in ClickOutcomes : BidResponse(FirstSlot, o)
    \/ MediaLoad(FirstSlot)
    \/ Click(FirstSlot)
    \/ \E ok \in BOOLEAN : ClickBeaconSettle(FirstSlot, ok)
    \/ \E t \in navTimers[FirstSlot] : NavTimerFire(FirstSlot, t)
    \/ ClickTick

SpecClick == Init /\ [][NextClick]_vars

\* One slot from the placeholder through everything that can happen to it
\* afterwards: the events of its media element, observer entries above and
\* below the threshold, the dwell timer and the unload; the clock goes by
\* half a DURATION.
NextTerm ==
    \/ DOMContentLoaded
    \/ \E ok \in BOOLEAN : PidResponse(ok)
    \/ ConfigTimerFire
    \/ \E o \in Outcomes : BidResponse(FirstSlot, o)
    \/ MediaLoad(FirstSlot)
    \/ MediaError(FirstSlot)
    \/ \E entry \in {n \in Entries : n.intersectionRatio \in {0, THRESHOLD}} :
          ObserverCallback(FirstSlot, entry)
    \/ \E t \in timers[FirstSlot] : DwellTimerFire(FirstSlot, t)
    \/ BeforeUnload
    \/ TickBy(DURATION \div 2, MaxTime)

SpecTerm == Init /\ [][NextTerm]_vars

\* The markups the markup runs draw from: with and without an anchor href and
\* an image src, and with these onload attributes: none, sendUrl('https://z'),
\* sendUrl(''), another call, sendUrl('https://z') after another statement,
\* and sendUrl('https://z${AUCTION_PRICE}'); the bid without nurl and burl,
\* with https://n${AUCTION_PRICE}, and with ${AUCTION_MBR}.
AdmOutcomes ==
    LET OnloadTexts ==
            {Undefined, SendUrlCall(Url("z")), SendUrlCall(<<>>), <<"t", "(", ")">>,
             <<"t", "(", ")", ";">> \o SendUrlCall(Url("z")),
             SendUrlCall(Url("z") \o AUCTION.PRICE)}
        Markups ==
            {Adm(h, i, o) : h \in {Undefined, Url("x")}, i \in {Undefined, Url("y")},
                            o \in OnloadTexts}
    IN  {Ortb(m, n, n) : m \in Markups,
                         n \in {Undefined, Url("n") \o AUCTION.PRICE, AUCTION.MBR}}

\* One slot from the placeholder to the load of an ORTB creative.
NextAdm ==
    \/ DOMContentLoaded
    \/ \E ok \in BOOLEAN : PidResponse(ok)
    \/ ConfigTimerFire
    \/ \E o \in AdmOutcomes : BidResponse(FirstSlot, o)
    \/ MediaLoad(FirstSlot)
    \/ MediaError(FirstSlot)
    \/ ClickTick

SpecAdm == Init /\ [][NextAdm]_vars

\* The templates the substitution runs draw from: up to MaxPieces tokens and
\* texts in a row, and three more: price=${AUCTION_PRICE}&id=${AUCTION_BID_ID},
\* x=${AUCTION_MBR}, and ${AUCTION_${AUCTION_ID}LOSS}, a token around a token.
MacroPieces == {AUCTION[n] : n \in DOMAIN AUCTION} \cup {<<"x", "=">>, <<"$">>}

RECURSIVE Join(_)
Join(pieces) == IF pieces = <<>> THEN <<>> ELSE Head(pieces) \o Join(Tail(pieces))

PriceAndId ==
    <<"p", "r", "i", "c", "e", "=">> \o AUCTION.PRICE \o <<"&", "i", "d", "=">>
      \o AUCTION.BID_ID
XMbr == <<"x", "=">> \o AUCTION.MBR
Templates ==
    {Join(q) : q \in UNION {[1..n -> MacroPieces] : n \in 0..MaxPieces}}
      \cup {PriceAndId, XMbr, MacroPrefix \o AUCTION.ID \o <<"L", "O", "S", "S", "}">>}

\* The responses they draw from: without a bid payload in every shape, with
\* and without an id; with a payload whose members are absent but one, that
\* one being a plain text, empty, a replacement pattern or a token; with a
\* price; and {seatbid: [{bid: [{id: "b1", price: 2.5}]}]}.
EmptyBid == [NoResponse EXCEPT !.shape = "bid"]
B1AtPrice == [EmptyBid EXCEPT !.bid_id = <<"b", "1">>, !.price = Price(25)]
MemberTexts ==
    {<<"b", "1">>, <<>>, <<"$", "&">>, <<"$", "$">>, <<"$", "1">>, <<"$", Backtick>>,
     <<"$", "'">>, AUCTION.PRICE, AUCTION.ID}
MacroResponses ==
    {NoResponse}
      \cup {[NoResponse EXCEPT !.shape = sh, !.id = i] :
              sh \in {"noSeatbid", "emptySeatbid", "noBid", "emptyBid"},
              i \in {Undefined, <<"r", "1">>}}
      \cup {EmptyBid, B1AtPrice, [EmptyBid EXCEPT !.id = <<>>, !.bidid = <<"r", "2">>]}
      \cup {[EmptyBid EXCEPT ![f] = v] :
              f \in {"id", "bidid", "cur", "seat", "bid_id", "impid", "adid"},
              v \in MemberTexts}
      \cup {[EmptyBid EXCEPT !.price = Price(t)] : t \in {0, 20, 25, 105, 0 - 5}}

\* No page: replaceAuctionMacros called with a template and a response; the
\* function is the same in both copies of the engine.
InitMacro ==
    /\ InitState
    /\ variant = "part001"
    /\ pid = ""
    /\ placeholders = [s \in Slots |-> NoDecl]
    /\ macroUrl \in Templates
    /\ macroResp \in MacroResponses

\* The call replaceAuctionMacros(macroUrl, macroResp) returns.
ReplaceMacrosCall ==
    /\ macroOut = Undefined
    /\ macroOut' = ReplaceAuctionMacros(macroUrl, macroResp)
    /\ UNCHANGED <<macroUrl, macroResp, now, pageVars, beaconHist, initVars, slotVars,
                   beacons, vtVars, regCalls, unloads, histVars, waitHist, clickVars>>

NextMacro == ReplaceMacrosCall

SpecMacro == InitMacro /\ [][NextMacro]_vars

\* One slot from the placeholder to the load beacons of its creative, and
\* direct calls of sendImpression.
NextBeacon ==
    \/ DOMContentLoaded
    \/ \E ok \in BOOLEAN : PidResponse(ok)
    \/ ConfigTimerFire
    \/ \E o \in {FullCreative("brand"), FullOrtb} : BidResponse(FirstSlot, o)
    \/ MediaLoad(FirstSlot)
    \/ MediaError(FirstSlot)
    \/ \E url \in BeaconUrls : SendImpression(FirstSlot, url)
    \/ \E ok \in BOOLEAN : BeaconSettle(FirstSlot, ok)
    \/ ClickTick

SpecBeacon == Init /\ [][NextBeacon]_vars

\* ------------------------------------------------------------------ claims
\* C1: for every tracked element and every interleaving of visibility
\* entries, timer expirations and beforeunload events, the billable callback
\* registered through setupViewabilityTracking runs at most once.
C1_CallbackAtMostOnce == \A e \in Elems : TotalRuns(e) <= 1

\* C1's case: two dwell timers were set for the element, both are gone, one
\* of them ran the callback, and a beforeunload happened on the way.
C1_Witness ==
    /\ TotalRuns(FirstSlot) = 1
    /\ nextTimer[FirstSlot] = 3
    /\ timers[FirstSlot] = {}
    /\ unloads = 1

\* C2: the callback runs only after an unbroken run of above-threshold
\* entries that has lasted the full DURATION: a drop below the threshold
\* cancels the pending timer, so dwell from before the drop never counts.
C2_ContinuousDwell ==
    \A e \in Elems : firedDwell[e] = Null \/ firedDwell[e] >= DURATION

\* C3: on the timeline visible(0, 0.6), visible(400, 0.4), visible(500, 0.6)
\* the callback has not run before t = 1500, has run exactly once after
\* t = 1500, and never runs a second time.
C3_ResetTimeline ==
    \A e \in Elems :
        timeline[e] = "s3" =>
            /\ now < 1500 => TotalRuns(e) = 0
            /\ now > 1500 => TotalRuns(e) = 1
            /\ TotalRuns(e) <= 1

\* C5: after setupViewabilityTracking was called twice on an element there is
\* one observer and at most one dwell timer for it, the second call's
\* callback has never run, and the callbacks have run at most once in all.
C5_RegisterTwice ==
    \A e \in Elems :
        regCalls[e] >= 2 =>
            /\ observers[e] = 1
            /\ Cardinality(timers[e]) <= 1
            /\ cbRuns[e][2] = 0
            /\ TotalRuns(e) <= 1

\* C6: once an element's beforeunload listener has run, its observer is
\* disconnected, no dwell timer of it is pending, and no callback runs and no
\* entry is handled for it afterwards.
C6_UnloadTearsDown ==
    \A e \in Elems :
        tornDown[e] =>
            /\ ~observing[e]
            /\ timers[e] = {}
            /\ lateRuns[e] = 0
            /\ lateEntries[e] = 0

\* C4: the billable callback of a slot's creative never runs while the
\* creative's media is still loading, and where the creative carries both an
\* impression and a billable beacon, the billable one is never the first sent.
C4_LoadBeforeBillable ==
    \A s \in Slots :
        /\ TotalRuns(s) > 0 => media[s] # "pending"
        /\ (LoadBeacons(outcome[s]) # <<>> /\ beacons[s] # <<>>)
              => Head(beacons[s]) = Head(LoadBeacons(outcome[s]))

\* What the page shows of the slot: hidden by hideAdSlot, the error box of
\* showError, the loading indicator, or the creative.
SlotState(s) ==
    CASE ~placeholders[s].present -> "absent"
      [] display[s] = "none" -> "hidden"
      [] content[s] = "error" -> "error"
      [] content[s] = "loading" -> "loading"
      [] content[s] = "creative" -> "rendered"
      [] OTHER -> content[s]

\* initialize() has run its map over the placeholders.
Dispatched == initPc \in {"slots", "done"}

\* C7: a placeholder whose width, height or slot id is missing, not numeric,
\* zero or negative never gets a bid request and never shows the loading
\* indicator, and is in the misconfigured terminal state once initialize()
\* has dispatched the slots.
C7_DegenerateNeverRequests ==
    LET Degenerate(a) == ParseInt10(a).nan \/ ParseInt10(a).val <= 0
    IN
    \A s \in Slots :
        (/\ placeholders[s].present
         /\ \/ Degenerate(placeholders[s].width)
            \/ Degenerate(placeholders[s].height)
            \/ Degenerate(placeholders[s].slot_id))
          => /\ posts[s] = 0
             /\ ~everLoading[s]
             /\ bid[s] = "none"
             /\ Dispatched => SlotState(s) \in {"error", "hidden"}

\* C8: the slots' pipelines are independent: whatever the other slots'
\* outcomes, a slot whose bid is in flight shows the loading indicator, a
\* slot whose bid failed is in its failure state, a slot that got a complete
\* brand creative shows it, a misconfigured slot is in its terminal state;
\* and initialize() waits while, and only while, some pipeline is pending.
C8_SlotsIndependent ==
    /\ \A s \in Slots :
          /\ bid[s] = "inflight" => SlotState(s) = "loading" /\ slotPromise[s] = "pending"
          /\ (bid[s] = "settled" /\ outcome[s].kind # "json")
                => SlotState(s) \in {"error", "hidden"}
          /\ (bid[s] = "settled" /\ outcome[s] = FullCreative("brand"))
                => SlotState(s) = "rendered"
          /\ (Dispatched /\ Misconfigured(s)) => SlotState(s) \in {"error", "hidden"}
    /\ initPc = "slots" <=> (Dispatched /\ \E s \in Slots : bid[s] = "inflight")

\* C8's case: initialize() has returned on a page where one slot's bid
\* failed, another slot rendered its creative and a third was misconfigured.
C8_Witness ==
    /\ initPc = "done"
    /\ \E s, t, u \in Slots :
          /\ bid[s] = "settled" /\ outcome[s].kind = "network_error"
          /\ bid[t] = "settled" /\ SlotState(t) = "rendered"
          /\ Misconfigured(u)

\* C9: initialize() never ends rejected, and when it has returned after
\* dispatching the slots no slot still shows the loading indicator.
C9_ResolvesWithNoneLoading ==
    /\ initPc \in {"idle", "pid", "waitConfig", "slots", "done", "aborted"}
    /\ initPc = "done" => \A s \in Slots : SlotState(s) # "loading" /\ bid[s] # "inflight"

\* C9's case: initialize() has returned after every slot of the page was
\* dispatched as valid and every bid failed.
C9_Witness ==
    /\ initPc = "done"
    /\ \A s \in Slots : everLoading[s] /\ bid[s] = "settled" /\ outcome[s].kind # "json"

\* C10: a bid request is never in flight for longer than the fetch timeout.
C10_BidTimesOut ==
    \A s \in Slots : bid[s] = "inflight" => now - bidSentAt[s] <= BidTimeout

\* C11: in one run each valid slot (width, height and slot id positive) gets
\* exactly one HTTP POST and every other slot none; a failed request is not
\* sent again.
C11_OnePostPerValidSlot ==
    LET Positive(a) == ~ParseInt10(a).nan /\ ParseInt10(a).val > 0
        ValidBySpec(s) == /\ placeholders[s].present
                          /\ Positive(placeholders[s].width)
                          /\ Positive(placeholders[s].height)
                          /\ Positive(placeholders[s].slot_id)
    IN  \A s \in Slots :
            posts[s] = IF Dispatched /\ ValidBySpec(s) THEN 1 ELSE 0

\* C12: a slot whose bid request failed is in the load-failed state: failure
\* box or hidden, no creative, no media element, no tracker registered and no
\* beacon sent, whatever happens later.
C12_BidFailureIsTerminal ==
    \A s \in Slots :
        (bid[s] = "settled" /\ outcome[s].kind # "json")
          => /\ SlotState(s) \in {"error", "hidden"}
             /\ content[s] # "creative"
             /\ media[s] = "none"
             /\ ~tracking[s] /\ regCalls[s] = 0 /\ ~observing[s]
             /\ beacons[s] = <<>>
             /\ posts[s] = 1

\* C12's case: the bid request got a non-2xx answer, and a second and an
\* unload have passed since.
C12_Witness ==
    /\ outcome[FirstSlot].kind = "http_error"
    /\ bid[FirstSlot] = "settled"
    /\ now >= DURATION
    /\ unloads = 1

\* C15: a slot whose bid response has no recognized ad_type (another tag, no
\* ad_type, a null response) is in the invalid-creative state, with no media
\* element, no tracker and no beacon, whatever happens later.
C15_UnknownTypeIsTerminal ==
    \A s \in Slots :
        (/\ bid[s] = "settled" /\ outcome[s].kind = "json"
         /\ outcome[s].ad_type \in {"other", "undefined", "nullresp"})
          => /\ SlotState(s) \in {"error", "hidden"}
             /\ media[s] = "none"
             /\ ~tracking[s] /\ regCalls[s] = 0 /\ ~observing[s]
             /\ beacons[s] = <<>>

\* C15's case: the bid response was the JSON value null, and a second has
\* passed since.
C15_Witness ==
    /\ bid[FirstSlot] = "settled"
    /\ outcome[FirstSlot] = Json("nullresp")
    /\ now >= DURATION

\* C16: a slot whose bid response has a recognized ad_type but not the
\* fields its creative needs (no full_file_path; no bid or no image in the
\* ORTB markup) is in the invalid-creative state, its pipeline has settled,
\* and it has no media element, no tracker and no beacon, whatever happens
\* later.
C16_MissingFieldsIsTerminal ==
    \A s \in Slots :
        (/\ bid[s] = "settled" /\ outcome[s].kind = "json"
         /\ \/ outcome[s].ad_type \in {"brand", "testing_pid"} /\ ~outcome[s].file
            \/ outcome[s].ad_type = "ortb" /\ ~(outcome[s].hasBid /\ outcome[s].image))
          => /\ SlotState(s) \in {"error", "hidden"}
             /\ slotPromise[s] = "fulfilled"
             /\ media[s] = "none"
             /\ ~tracking[s] /\ regCalls[s] = 0 /\ ~observing[s]
             /\ beacons[s] = <<>>

\* C16's case: an ORTB response with a bid whose markup has no image, and a
\* second has passed since.
C16_Witness ==
    /\ bid[FirstSlot] = "settled"
    /\ outcome[FirstSlot] = OrtbNoImage
    /\ now >= DURATION

\* C13: in the identity-gated variant, when the URL has no pid or the
\* check-pid request settles with anything but success === true,
\* initialize() has aborted and no slot was touched: every placeholder is as
\* declared, no bid request and no beacon was sent.
C13_GateAbortsUntouched ==
    LET Untouched(s) == /\ content[s] = "declared" /\ display[s] = "shown"
                        /\ ~everLoading[s] /\ bid[s] = "none" /\ posts[s] = 0
                        /\ beacons[s] = <<>> /\ media[s] = "none"
    IN  (/\ variant = "part001"
         /\ \/ pid = "" /\ initPc # "idle"
            \/ pidVerdict = "rejected")
          => /\ initPc = "aborted"
             /\ \A s \in Slots : Untouched(s)

\* C13's case: the page has a pid and a valid placeholder, the check did not
\* answer success === true, and time has passed since.
C13_Witness ==
    /\ variant = "part001"
    /\ pidVerdict = "rejected"
    /\ Valid(FirstSlot)
    /\ now >= baseDelay

\* C14: initialize() completes at most 5 waits, the n-th (n = 0..4) of
\* 500 * 2^n ms, 15500 ms in all at most; it waits on only after a check that
\* found the configuration missing and dispatches the slots at the first
\* check that finds it; after 5 waits without it the run has aborted with no
\* slot touched and no bid request sent.
C14_BoundedBackoff ==
    LET Total[n \in 0..Len(waits)] == IF n = 0 THEN 0 ELSE Total[n - 1] + waits[n]
        Untouched(s) == /\ content[s] = "declared" /\ display[s] = "shown"
                        /\ ~everLoading[s] /\ bid[s] = "none" /\ posts[s] = 0
    IN  /\ Len(waits) <= 5
        /\ \A n \in 1..Len(waits) : waits[n] = 500 * Pow2(n - 1)
        /\ Total[Len(waits)] <= 15500
        /\ initPc = "waitConfig" => ~definedAtCheck /\ Len(waits) < 5
        /\ definedAtCheck => Dispatched
        /\ (Len(waits) = 5 /\ ~definedAtCheck)
             => initPc = "aborted" /\ \A s \in Slots : Untouched(s)

\* C14's case: the configuration never came: five waits were completed and
\* the run aborted, on a page with a valid placeholder.
C14_Witness ==
    /\ Len(waits) = 5
    /\ initPc = "aborted"
    /\ now = 15500
    /\ Valid(FirstSlot)

\* C17: every click on a rendered creative ends in a navigation: once no
\* click beacon of the slot is in flight and no redirect timer is pending,
\* a slot that was clicked has assigned window.location.href.
C17_ClickNavigates ==
    \A s \in Slots :
        (clicks[s] > 0 /\ clickFetch[s] = 0 /\ navTimers[s] = {}) => navs[s] # <<>>

\* C18: a click on a brand creative navigates to the first present of the
\* explicit destination URL, the landing page URL and the raw click URL
\* ('#' when none is), with or without a click beacon.
C18_BrandDestination ==
    LET FirstPresent(r) == IF r.tracking /\ r.destination_url THEN "destination_url"
                           ELSE IF r.landing_page_url THEN "landing_page_url"
                           ELSE IF r.raw_click_url THEN "click_url"
                           ELSE "#"
    IN  \A s \in Slots :
            (/\ outcome[s].ad_type = "brand"
             /\ clicks[s] > 0 /\ clickFetch[s] = 0 /\ navTimers[s] = {})
              => /\ navs[s] # <<>>
                 /\ \A i \in DOMAIN navs[s] : navs[s][i] = FirstPresent(outcome[s])

\* C19: a creative none of whose candidate destination URLs is present never
\* navigates anywhere but to '#'.
C19_NoCandidateGoesNowhere ==
    LET NoCandidate(r) ==
            CASE r.ad_type = "brand" ->
                    ~(r.tracking /\ r.destination_url) /\ ~r.landing_page_url
                      /\ ~r.raw_click_url
              [] r.ad_type = "testing_pid" -> ~(r.tracking /\ r.destination_url)
              [] r.ad_type = "ortb" -> ~r.admClick
              [] OTHER -> FALSE
    IN  \A s \in Slots :
            NoCandidate(outcome[s]) => \A i \in DOMAIN navs[s] : navs[s][i] = "#"

\* C20: a creative that declares a plain impression URL has sent the plain
\* impression beacon once when its media element has fired load or
\* loadeddata, however often, and not at all before.
C20_ImpressionOnce ==
    \A s \in Slots :
        LET sent == Cardinality({i \in DOMAIN beacons[s] : beacons[s][i] = "impression"})
            declared == \E i \in DOMAIN LoadBeacons(outcome[s]) :
                            LoadBeacons(outcome[s])[i] = "impression"
        IN  (content[s] = "creative" /\ declared)
              => sent = IF loads[s] > 0 THEN 1 ELSE 0

\* C21: an ORTB creative whose image has fired load has sent the impression
\* journey event, whether its markup carries an on-load impression URL or not.
C21_JourneyImpressionOnLoad ==
    \A s \in Slots :
        (outcome[s].ad_type = "ortb" /\ loads[s] > 0)
          => \E i \in DOMAIN beacons[s] : beacons[s][i] = "journey_impression"

\* C22: for an ORTB creative the win notice (nurl) goes out only in the load
\* listener and only when the bid has one; the bill notice (burl) and the
\* billable journey event go out at most once, burl only when the bid has
\* one, and only once the image has been above the viewability threshold for
\* an unbroken DURATION.
C22_NoticesInCausalOrder ==
    \A s \in Slots :
        LET count(l) == Cardinality({i \in DOMAIN beacons[s] : beacons[s][i] = l})
        IN  outcome[s].ad_type = "ortb"
              => /\ count("nurl") <= (IF OrEmpty(outcome[s].nurl) # <<>> THEN loads[s] ELSE 0)
                 /\ count("burl") <= (IF OrEmpty(outcome[s].burl) # <<>> THEN 1 ELSE 0)
                 /\ count("journey_billable") <= 1
                 /\ count("burl") + count("journey_billable") > 0
                       => firedDwell[s] # Null /\ firedDwell[s] >= DURATION

\* C23: an ORTB response whose markup has an anchor with href X, an image
\* with src Y and the onload attribute sendUrl('Z') is rendered as one image
\* with src Y in an anchor with href X, and once the image has fired load the
\* first two requests sent are the one to Z and the impression journey event.
C23_MarkupRendered ==
    \A s \in Slots :
        LET m == outcome[s].adm
            urls == ExtractUrls(m)
        IN  (/\ bid[s] = "settled" /\ outcome[s].ad_type = "ortb" /\ outcome[s].hasBid
             /\ m.href = Url("x") /\ m.src = Url("y")
             /\ m.onload = SendUrlCall(Url("z")))
              => /\ media[s] \in {"pending", "loaded", "error"}
                 /\ media[s] # "error" => content[s] = "creative"
                 /\ imgSrc[s] = Url("y")
                 /\ anchorHref[s] = Url("x")
                 /\ urls.impressionUrl = Url("z")
                 /\ loads[s] = 0 => beacons[s] = <<>>
                 /\ loads[s] > 0
                       => /\ Len(beacons[s]) >= 2
                          /\ SubSeq(beacons[s], 1, 2) = <<"impression", "journey_impression">>

\* C23's case: such a response was rendered and its image has fired load.
C23_Witness ==
    /\ outcome[FirstSlot]
         = Ortb(Adm(Url("x"), Url("y"), SendUrlCall(Url("z"))), Undefined, Undefined)
    /\ content[FirstSlot] = "creative"
    /\ loads[FirstSlot] = 1
    /\ beacons[FirstSlot] = <<"impression", "journey_impression">>

\* C24: replaceAuctionMacros returns a string for every template and every
\* response, gives the template back unchanged when the response has no
\* seatbid[0].bid[0], and leaves its arguments as they were.
C24_TotalAndPure ==
    /\ [](macroOut # Undefined
            => /\ macroOut # NullUrl
               /\ ~HasPayload(macroResp) => macroOut = macroUrl)
    /\ [][macroResp' = macroResp /\ macroUrl' = macroUrl]_vars

\* C24's case: a template with a token came back unchanged from a response
\* that has an id and a seatbid, but no bid in it.
C24_Witness ==
    /\ macroUrl = XMbr
    /\ macroResp = [NoResponse EXCEPT !.shape = "noBid", !.id = <<"r", "1">>]
    /\ macroOut = XMbr

\* C25: whatever the response, with a bid payload or without, x=${AUCTION_MBR}
\* comes back as x=, and a template that is ${AUCTION_MBR} or ${AUCTION_LOSS}
\* comes back empty.
C25_AlwaysEmptyMacros ==
    macroOut # Undefined
      => /\ macroUrl = XMbr => macroOut = <<"x", "=">>
         /\ macroUrl \in {AUCTION.MBR, AUCTION.LOSS} => macroOut = <<>>

\* C26: for a response with a bid payload the result is the template with
\* every occurrence of each of the nine tokens replaced by the token's value
\* (empty when the member is absent) and every other character kept; so
\* price=${AUCTION_PRICE}&id=${AUCTION_BID_ID} with bid id b1 and price 2.5
\* gives price=2.5&id=b1.
C26_TokensReplacedByValues ==
    LET es == Macros(macroResp)
        at(i) == {k \in DOMAIN es : MatchesAt(macroUrl, i, es[k].macro)}
        Replaced[i \in 1..Len(macroUrl) + 1] ==
            IF i > Len(macroUrl) THEN <<>>
            ELSE IF at(i) # {}
            THEN LET k == CHOOSE k \in at(i) : TRUE
                 IN  es[k].value \o Replaced[i + Len(es[k].macro)]
            ELSE <<macroUrl[i]>> \o Replaced[i + 1]
    IN  (macroOut # Undefined /\ HasPayload(macroResp))
          => /\ macroOut = Replaced[1]
             /\ (macroUrl = PriceAndId /\ macroResp = B1AtPrice)
                   => macroOut = <<"p", "r", "i", "c", "e", "=", "2", ".", "5", "&", "i",
                                   "d", "=", "b", "1">>

\* C27: for values that hold no replacement pattern, the result is the
\* simultaneous replacement of the tokens of the template as it was handed
\* in (a token that a value brings in, or that comes about next to a
\* replaced token, stays), and processing the tokens in the opposite order
\* gives the same.
C27_SinglePass ==
    LET es == Macros(macroResp)
        Plain(v) ==
            \A i \in 1..Len(v) - 1 :
                v[i] = "$" => v[i + 1] \notin {"$", "&", Backtick, "'"}
        at(i) == {k \in DOMAIN es : MatchesAt(macroUrl, i, es[k].macro)}
        Simultaneous[i \in 1..Len(macroUrl) + 1] ==
            IF i > Len(macroUrl) THEN <<>>
            ELSE IF at(i) # {}
            THEN LET k == CHOOSE k \in at(i) : TRUE
                 IN  es[k].value \o Simultaneous[i + Len(es[k].macro)]
            ELSE <<macroUrl[i]>> \o Simultaneous[i + 1]
        Opposite == [k \in DOMAIN es |-> es[Len(es) + 1 - k]]
    IN  (/\ macroOut # Undefined /\ HasPayload(macroResp)
         /\ \A k \in DOMAIN es : Plain(es[k].value))
          => /\ macroOut = Simultaneous[1]
             /\ macroOut = Reduce(Opposite, macroUrl)

\* C28: the result is what the nine replacements give when each inserts its
\* value character for character: "$&", "$$", "$1" and the like in a value
\* come out as they went in.
C28_LiteralReplacement ==
    LET es == Macros(macroResp)
        Verbatim(str, pat, rep) ==
            LET R[i \in 1..Len(str) + 1] ==
                    IF i > Len(str) THEN <<>>
                    ELSE IF MatchesAt(str, i, pat) THEN rep \o R[i + Len(pat)]
                    ELSE <<str[i]>> \o R[i + 1]
            IN  R[1]
        Pass[k \in 0..Len(es)] ==
            IF k = 0 THEN macroUrl ELSE Verbatim(Pass[k - 1], es[k].macro, es[k].value)
    IN  (macroOut # Undefined /\ HasPayload(macroResp)) => macroOut = Pass[Len(es)]

\* C29: every promise sendImpression has handed out settled fulfilled,
\* whatever the url and however the request ended; a call with a missing or
\* empty url sent no request; and the settling of a beacon, failed or not,
\* leaves every slot as it was.
C29_BeaconsNeverSurface ==
    /\ [](\A s \in Slots :
            LET Present(u) == u # Undefined /\ u # NullUrl /\ u # <<>>
            IN  /\ \A k \in Settlements : k.state = "rejected" => beaconPromises[s][k] = 0
                /\ Cardinality({i \in DOMAIN beacons[s] : beacons[s][i] = "direct"})
                     = SumOver(sends[s], {u \in BeaconUrls : Present(u)}))
    /\ [][beaconPromises' # beaconPromises
            => UNCHANGED <<display, content, media, bid, slotPromise, initPc, domVars>>]_vars

\* C29's case: sendImpression was called with an empty url, and a request of
\* a rendered creative has failed; the creative is still there.
C29_Witness ==
    /\ sends[FirstSlot][<<>>] > 0
    /\ beaconPromises[FirstSlot][Settled(TRUE, FALSE, "fulfilled")] > 0
    /\ content[FirstSlot] = "creative" /\ display[FirstSlot] = "shown"
    /\ media[FirstSlot] = "loaded"

\* C30: a slot that has failed for a reason of its own (its declaration is
\* missing or malformed and initialize() has reached it, its bid request
\* failed, the response carries no creative a renderer accepts, or the media
\* element reported an error) shows the error box of showError, and its
\* element is displayed.
C30_FailedSlotShowsPlaceholder ==
    \A s \in Slots :
        LET failed == \/ Dispatched /\ Misconfigured(s)
                      \/ bid[s] = "settled" /\ outcome[s].kind # "json"
                      \/ bid[s] = "settled" /\ outcome[s].kind = "json"
                           /\ ~Renderable(outcome[s])
                      \/ media[s] = "error"
        IN  (placeholders[s].present /\ failed)
              => content[s] = "error" /\ display[s] = "shown"

\* C31: a slot that is rendered, shows the error box or is hidden is not in
\* the loading state after any further step, and the loading indicator is not
\* written into it again: not by a load or error event of its media element,
\* an observer entry, a timer, an unload or the settling of a bid request.
C31_NeverBackToLoading ==
    [][\A s \in Slots :
         SlotState(s) \in {"rendered", "error", "hidden"}
           => /\ SlotState(s)' # "loading"
              /\ content[s] # "loading" => content'[s] # "loading"]_vars

\* C31's case: a rendered creative whose media element has fired every load
\* event and whose billable callback has run is still rendered.
C31_Witness ==
    /\ SlotState(FirstSlot) = "rendered"
    /\ loads[FirstSlot] = MaxLoads
    /\ TotalRuns(FirstSlot) > 0
    /\ unloads > 0

\* C32: window.adSystemConfig is defined before initialize() reads it, so
\* every check initialize() makes finds it defined and initialize() never
\* waits for it; once defined it stays defined; and no bid request is issued
\* without it.
C32_ConfigBeforeOrchestration ==
    /\ [](/\ initPc # "waitConfig" /\ waits = <<>>
          /\ initPc \in {"slots", "done"} => definedAtCheck
          /\ initPc # "idle" => configDefined
          /\ \A s \in Slots : posts[s] > 0 => configDefined)
    /\ [][configDefined => configDefined']_vars

\* C33: a step that handles an event of one element changes the tracker
\* state (visibility start, last timer, pending timers, fired flag, observer)
\* and the callback runs of that element only; a callback runs only in the
\* step that takes a due timer of its own element, and whether that step runs
\* it depends on the element's own flag alone; an unload drops of each element
\* no timer but the one its own closure holds.
C33_TrackersIndependent ==
    [][LET St(e) == <<tracking[e], visibilityStart[e], visibilityTimeout[e],
                      hasTriggeredBillable[e], timers[e], nextTimer[e], observing[e],
                      cbRuns[e], beacons[e]>>
           Taken(e) == {t \in timers[e] : t \notin timers'[e]}
       IN  /\ unloads' = unloads => Cardinality({e \in Elems : St(e)' # St(e)}) <= 1
           /\ \A e \in Elems :
                /\ cbRuns'[e] # cbRuns[e]
                     => /\ \E t \in Taken(e) : t.due <= now
                        /\ ~hasTriggeredBillable[e]
                /\ (unloads' = unloads /\ Taken(e) # {} /\ ~hasTriggeredBillable[e]
                      /\ visibilityStart'[e] = visibilityStart[e])
                     => cbRuns'[e] # cbRuns[e] /\ hasTriggeredBillable'[e]
                /\ unloads' # unloads
                     => \A t \in Taken(e) : t.id = visibilityTimeout[e]]_vars

\* C33's case: both elements were tracked at once, the first one's callback
\* has run while the second one's dwell, begun later, was still pending, and
\* the second one's callback has run after it.
C33_Witness ==
    /\ TotalRuns(FirstSlot) > 0 /\ TotalRuns(FirstSlot + 1) > 0
    /\ visibilityStart[FirstSlot] < visibilityStart[FirstSlot + 1]
    /\ hasTriggeredBillable[FirstSlot] /\ hasTriggeredBillable[FirstSlot + 1]

\* C34: when an unbroken run of above-threshold entries (ratio THRESHOLD
\* included) began at t and no unload tore the tracker down, the callback has
\* run once the clock is past t + DURATION, and it ran at t + DURATION, not
\* before and not later, however many above-threshold entries followed the
\* first; after the run the flag is set, the observer is disconnected, and no
\* step sets another dwell timer.
C34_DwellElapses ==
    /\ [](\A e \in Elems :
            /\ (aboveSince[e] # Null /\ ~tornDown[e] /\ now > aboveSince[e] + DURATION)
                 => TotalRuns(e) > 0
            /\ firedDwell[e] >= 0 => firedDwell[e] = DURATION
            /\ TotalRuns(e) > 0 => hasTriggeredBillable[e] /\ ~observing[e])
    /\ [][\A e \in Elems : TotalRuns(e) > 0 => nextTimer'[e] = nextTimer[e]]_vars

\* C35: an element has at most one pending dwell timer, and has one only
\* while a visibility start is recorded for it, its callback has not run and
\* its beforeunload listener has not run.
C35_OnePendingTimer ==
    \A e \in Elems :
        /\ Cardinality(timers[e]) <= 1
        /\ timers[e] # {}
             => /\ visibilityStart[e] # Null
                /\ ~hasTriggeredBillable[e]
                /\ ~tornDown[e]

\* C36: the billable callback of a slot's creative has not run while the
\* creative's media element has fired no load event, so a slot whose media
\* failed to load has sent no billable beacon; and once the media element has
\* reported an error, no step runs the callback.
C36_NoBillableWithoutMedia ==
    /\ [](\A s \in Slots :
            loads[s] = 0
              => /\ TotalRuns(s) = 0
                 /\ \A i \in DOMAIN beacons[s] :
                      beacons[s][i] \notin {"billable", "journey_billable", "burl"})
    /\ [][\A s \in Slots : media[s] = "error" => cbRuns'[s] = cbRuns[s]]_vars

\* C37: no URL an ORTB creative's listeners have sent (the markup's on-load
\* URL, nurl, burl) holds one of the nine macro tokens.
C37_NoTokenIsSent ==
    \A s \in Slots :
        outcome[s].ad_type = "ortb"
          => \A i \in DOMAIN beacons[s] :
                beacons[s][i] \in {"impression", "nurl", "burl"}
                  => LET url == OrtbRequestUrl(beacons[s][i], outcome[s])
                     IN  \A k \in 1..Len(url) : \A n \in DOMAIN AUCTION :
                            ~MatchesAt(url, k, AUCTION[n])

\* C38: whichever copy of the engine runs, a slot whose pipeline has ended
\* (its bid request has settled, or it was found misconfigured) is where the
\* other copy leaves a slot with the same declaration and response: rendered,
\* showing the error box, or hidden; a slot has sent beacons only for a
\* response both copies render; and initialize() gives up for no reason but
\* the one both copies have, the missing configuration.
C38_CopiesAgree ==
    /\ \A s \in Slots :
         LET o == outcome[s]
             Final(v) == IF bid[s] = "settled" /\ o.kind = "json" /\ RenderableIn(v, o)
                         THEN "rendered"
                         ELSE IF UsesShowErrorIn(v, o) THEN "error" ELSE "hidden"
         IN  /\ (bid[s] = "settled" \/ (Dispatched /\ Misconfigured(s)))
                  => /\ SlotState(s) = Final(variant)
                     /\ Final("ads") = Final("part001")
             /\ beacons[s] # <<>> => RenderableIn("ads", o) /\ RenderableIn("part001", o)
    /\ initPc = "aborted" => ~configDefined

====
